---- MODULE Spec2Model ----
(***************************************************************************)
(* A model of sugar's asset pairing (src/upload/assets.rs) and of its      *)
(* withdraw command (src/withdraw/process.rs).                             *)
(*                                                                         *)
(* A file name is a sequence of one-character strings, so that the stem    *)
(* before the first '.', the ".json" suffix test and the anchored          *)
(* case-insensitive patterns are computed the way the code computes them.  *)
(* Option<T> is a sequence of length at most one: <<>> is None, <<x>> is   *)
(* Some(x).                                                                *)
(***************************************************************************)
EXTENDS Integers, Sequences, FiniteSets, TLC

VARIABLES
    pc,             \* position of the running operation
    dir_ok,         \* whether fs::read_dir(assets_dir) succeeds
    entries,        \* what fs::read_dir yields for assets_dir, in scan order
    fault,          \* the file (if any) that cannot be opened or parsed
    paths,          \* get_asset_pairs: the scanned file names
    k,              \* get_asset_pairs: position in metadata_filenames
    asset_pairs,    \* get_asset_pairs: HashMap<usize, AssetPair>
    result,         \* what the operation returned
    cache_items,    \* cache records produced by into_cache_item, by index
    document,       \* get_updated_metadata: what the metadata file holds
    media_link,     \* get_updated_metadata: the media link given
    animation_link, \* get_updated_metadata: the animation link given, if any
    metadata,       \* get_updated_metadata: the local `metadata`
    updated,        \* get_updated_metadata: the text returned, if any
    args,           \* process_withdraw: WithdrawArgs
    payer,          \* process_withdraw: the keypair's public key
    authority,      \* process_withdraw: the authority setup_withdraw returns
    list,           \* process_withdraw: the local `list`
    accounts,       \* process_withdraw: the candy machines the lookup found
    answer,         \* process_withdraw: what the user answered to the prompt
    next,           \* process_withdraw: position of for_each in accounts
    not_drained,    \* process_withdraw: the failure counter
    error_messages, \* process_withdraw: Vec<WithdrawError>
    withdraws,      \* the do_withdraw calls made so far: (candy machine, outcome)
    listed          \* the candy machines printed by the listing

metaVars == <<document, media_link, animation_link, metadata, updated>>

withdrawVars ==
    <<args, payer, authority, list, accounts, answer, next, not_drained,
      error_messages, withdraws, listed>>

assetVars == <<dir_ok, entries, fault, paths, k, asset_pairs, cache_items>>

vars == <<pc, result, assetVars, metaVars, withdrawVars>>

\* The variables of an operation that is not the one running.
AssetsIdle ==
    /\ dir_ok = TRUE
    /\ entries = <<>>
    /\ paths = <<>>
    /\ k = 1
    /\ asset_pairs = <<>>
    /\ cache_items = <<>>

MetadataIdle ==
    /\ document = <<>>
    /\ media_link = ""
    /\ animation_link = <<>>
    /\ metadata = <<>>
    /\ updated = <<>>

WithdrawIdle ==
    /\ args = <<>>
    /\ payer = ""
    /\ authority = ""
    /\ list = FALSE
    /\ accounts = <<>>
    /\ answer = ""
    /\ next = 1
    /\ not_drained = 0
    /\ error_messages = <<>>
    /\ withdraws = <<>>
    /\ listed = <<>>

\* ------------------------------------------------------------------ bounds

\* Longest directory listing explored.
MaxFiles == 4

\* Most file entries in a metadata document.
MaxFileEntries == 3

\* Most candy machines the account lookup returns.
MaxAccounts == 3

\* ----------------------------------------------------------------- strings

None == <<>>

Some(x) == <<x>>

UpperAlpha ==
    <<"A","B","C","D","E","F","G","H","I","J","K","L","M",
      "N","O","P","Q","R","S","T","U","V","W","X","Y","Z">>

LowerAlpha ==
    <<"a","b","c","d","e","f","g","h","i","j","k","l","m",
      "n","o","p","q","r","s","t","u","v","w","x","y","z">>

UpperLetters == {UpperAlpha[n] : n \in DOMAIN UpperAlpha}

LowerOf ==
    [u \in UpperLetters |->
        LowerAlpha[CHOOSE n \in DOMAIN UpperAlpha : UpperAlpha[n] = u]]

\* char::to_lowercase on the ASCII letters.
ToLowerChar(c) == IF c \in UpperLetters THEN LowerOf[c] ELSE c

\* str::to_lowercase.
to_lowercase(s) == [n \in DOMAIN s |-> ToLowerChar(s[n])]

\* str::ends_with.
ends_with(s, suffix) ==
    /\ Len(s) >= Len(suffix)
    /\ SubSeq(s, Len(s) - Len(suffix) + 1, Len(s)) = suffix

\* str::starts_with(char).
starts_with(s, c) == Len(s) >= 1 /\ s[1] = c

\* metadata_filename.split('.').next().unwrap(): the text before the first '.'.
RECURSIVE SplitFirst(_)
SplitFirst(s) ==
    IF s = <<>> \/ Head(s) = "." THEN <<>>
    ELSE <<Head(s)>> \o SplitFirst(Tail(s))

DigitChars == <<"0","1","2","3","4","5","6","7","8","9">>

Digits == {DigitChars[n] : n \in DOMAIN DigitChars}

ValueOf ==
    [d \in Digits |-> (CHOOSE n \in DOMAIN DigitChars : DigitChars[n] = d) - 1]

IsDigit(c) == c \in Digits

DigitValue(c) == ValueOf[c]

\* i.parse::<usize>().is_ok() on the model's alphabet (no sign character, and
\* stems far too short to overflow a usize): a non-empty run of decimal digits.
ParsesAsUsize(s) == s # <<>> /\ \A n \in DOMAIN s : IsDigit(s[n])

\* i.parse::<usize>().unwrap(): the decimal value; leading zeros do not count.
RECURSIVE ParseUsize(_)
ParseUsize(s) ==
    IF s = <<>> THEN 0
    ELSE 10 * ParseUsize(SubSeq(s, 1, Len(s) - 1)) + DigitValue(s[Len(s)])

DotJson == <<".", "j", "s", "o", "n">>

ImgExts == {<<"j","p","g">>, <<"g","i","f">>, <<"p","n","g">>}

AnimationExts == {<<"m","p","4">>, <<"m","o","v">>, <<"w","e","b","m">>}

\* RegexBuilder::new("^{i}\.((e1)|(e2)|(e3))$").case_insensitive(true)
\* .is_match(p), for a stem i of decimal digits: the whole name is the stem
\* text, a dot and one of the extensions, letter case aside.
RegexMatch(i, exts, p) ==
    \E e \in exts : to_lowercase(p) = to_lowercase(i) \o <<".">> \o e

img_regex(i, p) == RegexMatch(i, ImgExts, p)

animation_regex(i, p) == RegexMatch(i, AnimationExts, p)

\* ------------------------------------------------------------- file system

assets_dir == "assets"

\* Path::new(assets_dir).join(name).to_str().to_string()
JoinPath(dir, name) == <<dir, "/">> \o name

FileNameOf(path) == SubSeq(path, 3, Len(path))

\* The bytes of a file: every file of the directory has its own content.
Bytes(path) == <<"bytes of">> \o FileNameOf(path)

\* HEXLOWER.encode(sha256(bytes)): kept symbolic, one digest per content.
Sha256Hex(bytes) == <<"sha256">> \o bytes

NoFault == [kind |-> "none", file |-> <<>>]

\* File::open(path) succeeds.
CanOpen(path) == ~(fault.kind = "unreadable" /\ fault.file = FileNameOf(path))

\* serde_json::from_reader succeeds on the opened metadata file.
CanParse(path) == ~(fault.kind = "unparsable" /\ fault.file = FileNameOf(path))

\* metadata.name of a parsed metadata file.
MetadataName(path) == <<"name in">> \o FileNameOf(path)

\* One io::Result<DirEntry> of fs::read_dir: `ok` is whether the entry itself
\* was read, `unicode` whether file_name().to_str() is Some, `meta_ok` whether
\* entry.metadata() succeeds, `is_file` what that metadata says.
Entry(name, ok, unicode, meta_ok, is_file) ==
    [name |-> name, ok |-> ok, unicode |-> unicode, meta_ok |-> meta_ok,
     is_file |-> is_file]

RegularFile(name) == Entry(name, TRUE, TRUE, TRUE, TRUE)

Directory(name) == Entry(name, TRUE, TRUE, TRUE, FALSE)

\* The filter of count_files on one entry that was read: "keep", "drop", or
\* "panic" when an expect() fails. The metadata lookup is only made for a name
\* that does not start with '.'.
FilterEntry(e) ==
    IF ~e.unicode THEN "panic"
    ELSE IF starts_with(e.name, ".") THEN "drop"
    ELSE IF ~e.meta_ok THEN "panic"
    ELSE IF e.is_file THEN "keep"
    ELSE "drop"

\* .filter_map(|entry| entry.ok()).filter(...).collect() over the listing.
RECURSIVE CollectFiles(_)
CollectFiles(es) ==
    IF es = <<>> THEN [tag |-> "Ok", files |-> <<>>]
    ELSE IF ~Head(es).ok THEN CollectFiles(Tail(es))
    ELSE IF FilterEntry(Head(es)) = "panic" THEN [tag |-> "Panic", files |-> <<>>]
    ELSE LET rest == CollectFiles(Tail(es))
         IN  IF rest.tag = "Panic" THEN rest
             ELSE IF FilterEntry(Head(es)) = "keep"
             THEN [tag |-> "Ok", files |-> <<Head(es)>> \o rest.files]
             ELSE rest

\* count_files(assets_dir)
count_files(readable, es) ==
    IF ~readable THEN [tag |-> "Err", files |-> <<>>]
    ELSE CollectFiles(es)

\* ------------------------------------------------------------ results

NoIndex == 0 - 1

Pending == [tag |-> "Pending", kind |-> "", file |-> <<>>, index |-> NoIndex]

Ok == [tag |-> "Ok", kind |-> "", file |-> <<>>, index |-> NoIndex]

Panic == [tag |-> "Panic", kind |-> "", file |-> <<>>, index |-> NoIndex]

\* An anyhow error: its kind, and the file name or index its message carries.
Err(kind, file, index) ==
    [tag |-> "Err", kind |-> kind, file |-> file, index |-> index]

\* ------------------------------------------------------- get_asset_pairs

\* paths_ref.filter(|p| p.to_lowercase().ends_with(".json"))
IsMetadataName(p) == ends_with(to_lowercase(p), DotJson)

metadata_filenames == SelectSeq(paths, IsMetadataName)

\* encode(file): the digest, or the I/O error of File::open.
encode(file) ==
    IF CanOpen(file) THEN [tag |-> "Ok", hash |-> Sha256Hex(Bytes(file))]
    ELSE [tag |-> "Err", hash |-> <<>>]

\* A slip: the last match is taken instead of the first.
FirstTakesLast(v) == v[Len(v)]

\* The first element of a non-empty Vec: img_filenames[0], animation_filenames[0].
First(v) == v[1]

\* A slip: the map is rebuilt on every insertion and keeps one entry.
InsertForgets(map, key, value) == [j \in {key} |-> value]

\* HashMap::insert
Insert(map, key, value) ==
    [j \in DOMAIN map \cup {key} |-> IF j = key THEN value ELSE map[j]]

\* One pass of the body of `for metadata_filename in metadata_filenames`:
\* the error it returns, or the (index, AssetPair) it inserts.
LoopBody(metadata_filename) ==
    LET i == SplitFirst(metadata_filename)
        IsImg(p) == img_regex(i, p)
        IsAnimation(p) == animation_regex(i, p)
        img_filenames == SelectSeq(paths, IsImg)
        animation_filenames == SelectSeq(paths, IsAnimation)
        metadata_filepath == JoinPath(assets_dir, metadata_filename)
        img_filepath == JoinPath(assets_dir, First(img_filenames))
        animation_filename ==
            IF animation_filenames # <<>>
            THEN Some(JoinPath(assets_dir, First(animation_filenames)))
            ELSE None
        animation_encoded == encode(First(animation_filename))
        animation_hash ==
            IF animation_filename # None THEN Some(animation_encoded.hash)
            ELSE None
        asset_pair ==
            [name |-> MetadataName(metadata_filepath),
             metadata |-> metadata_filepath,
             metadata_hash |-> encode(metadata_filepath).hash,
             media |-> img_filepath,
             media_hash |-> encode(img_filepath).hash,
             animation_hash |-> animation_hash,
             animation |-> animation_filename]
        failed(e) == [ret |-> e, key |-> NoIndex, pair |-> <<>>]
    IN  IF ~ParsesAsUsize(i)
        THEN failed(Err("index", metadata_filename, NoIndex))
        ELSE IF img_filenames = <<>>
        THEN failed(Err("media", <<>>, ParseUsize(i)))
        ELSE IF ~CanOpen(metadata_filepath)
        THEN failed(Err("io", metadata_filename, NoIndex))
        ELSE IF ~CanParse(metadata_filepath)
        THEN failed(Err("json", metadata_filename, NoIndex))
        ELSE IF animation_filename # None /\ animation_encoded.tag = "Err"
        THEN failed(Err("io", First(animation_filenames), NoIndex))
        ELSE IF encode(metadata_filepath).tag = "Err"
        THEN failed(Err("io", metadata_filename, NoIndex))
        ELSE IF encode(img_filepath).tag = "Err"
        THEN failed(Err("io", First(img_filenames), NoIndex))
        ELSE [ret |-> Ok, key |-> ParseUsize(i), pair |-> asset_pair]

\* get_asset_pairs up to the loop: the scan, and the names of what it kept.
GetAssetPairsScan ==
    /\ pc = "get_asset_pairs"
    /\ LET filtered_files == count_files(dir_ok, entries)
       IN  CASE filtered_files.tag = "Panic" ->
                  /\ pc' = "panic"
                  /\ result' = Panic
                  /\ UNCHANGED paths
             [] filtered_files.tag = "Err" ->
                  /\ pc' = "done"
                  /\ result' = Err("read_dir", <<>>, NoIndex)
                  /\ UNCHANGED paths
             [] OTHER ->
                  /\ pc' = "loop"
                  /\ paths' = [n \in DOMAIN filtered_files.files |->
                                  filtered_files.files[n].name]
                  /\ UNCHANGED result
    /\ UNCHANGED <<dir_ok, entries, fault, k, asset_pairs, cache_items>>
    /\ UNCHANGED <<metaVars, withdrawVars>>

\* A slip: a metadata file that fails is logged and skipped, and the loop
\* goes on to the next one.
GetAssetPairsLoopSkipsFailures ==
    /\ pc = "loop"
    /\ k <= Len(metadata_filenames)
    /\ LET body == LoopBody(metadata_filenames[k])
       IN  /\ asset_pairs' = IF body.ret.tag = "Err" THEN asset_pairs
                             ELSE Insert(asset_pairs, body.key, body.pair)
           /\ k' = k + 1
           /\ UNCHANGED <<pc, result>>
    /\ UNCHANGED <<dir_ok, entries, fault, paths, cache_items>>
    /\ UNCHANGED <<metaVars, withdrawVars>>

\* One iteration of the loop over metadata_filenames.
GetAssetPairsLoop ==
    /\ pc = "loop"
    /\ k <= Len(metadata_filenames)
    /\ LET body == LoopBody(metadata_filenames[k])
       IN  IF body.ret.tag = "Err"
           THEN /\ pc' = "done"
                /\ result' = body.ret
                /\ UNCHANGED <<k, asset_pairs>>
           ELSE /\ asset_pairs' = Insert(asset_pairs, body.key, body.pair)
                /\ k' = k + 1
                /\ UNCHANGED <<pc, result>>
    /\ UNCHANGED <<dir_ok, entries, fault, paths, cache_items>>
    /\ UNCHANGED <<metaVars, withdrawVars>>

\* Ok(asset_pairs) once every metadata file has been handled.
GetAssetPairsReturn ==
    /\ pc = "loop"
    /\ k > Len(metadata_filenames)
    /\ pc' = "done"
    /\ result' = Ok
    /\ UNCHANGED <<dir_ok, entries, fault, paths, k, asset_pairs, cache_items>>
    /\ UNCHANGED <<metaVars, withdrawVars>>

\* The mapping the caller receives: Some(map) on Ok, None otherwise.
Returned == IF pc = "done" /\ result.tag = "Ok" THEN Some(asset_pairs) ELSE None

\* AssetPair::into_cache_item
into_cache_item(self) ==
    [name |-> self.name,
     media_hash |-> self.media_hash,
     media_link |-> <<>>,
     metadata_hash |-> self.metadata_hash,
     metadata_link |-> <<>>,
     on_chain |-> FALSE,
     animation_hash |-> self.animation_hash,
     animation_link |-> self.animation]

\* A caller turns one returned AssetPair into its cache record.
IntoCacheItem ==
    /\ pc = "done"
    /\ result.tag = "Ok"
    /\ \E key \in DOMAIN asset_pairs \ DOMAIN cache_items :
         cache_items' = Insert(cache_items, key, into_cache_item(asset_pairs[key]))
    /\ UNCHANGED <<pc, dir_ok, entries, fault, paths, k, asset_pairs, result>>
    /\ UNCHANGED <<metaVars, withdrawVars>>

\* ------------------------------------------------- directories explored

Name_0_json == <<"0", ".", "j", "s", "o", "n">>
Name_1_JSON == <<"1", ".", "J", "S", "O", "N">>
Name_01_json == <<"0", "1", ".", "j", "s", "o", "n">>
Name_a_json == <<"a", ".", "j", "s", "o", "n">>
Name_0_png == <<"0", ".", "p", "n", "g">>
Name_1_Png == <<"1", ".", "P", "n", "g">>
Name_0_mp4 == <<"0", ".", "m", "p", "4">>
Name_0_MOV == <<"0", ".", "M", "O", "V">>
Name_hidden == <<".", "0", ".", "j", "p", "g">>
Name_0_gif == <<"0", ".", "g", "i", "f">>

AssetNames ==
    {Name_0_json, Name_1_JSON, Name_01_json, Name_a_json,
     Name_0_png, Name_1_Png, Name_0_mp4, Name_0_MOV}

\* The entries a listing of get_asset_pairs is drawn from.
AssetEntries == {RegularFile(n) : n \in AssetNames}

\* Listings of at most MaxFiles entries with distinct names, in any order.
Listings(pool) ==
    UNION {{s \in [1..n -> pool] :
              \A a, b \in 1..n : a # b => s[a].name # s[b].name}
            : n \in 0..MaxFiles}

\* The files that may be faulty: those of index 0.
FaultyNames == {Name_0_json, Name_0_png, Name_0_mp4}

\* At most one file of the listing cannot be opened, or holds no valid
\* metadata document.
Faults(es) ==
    LET present == {es[n].name : n \in DOMAIN es} \cap FaultyNames
    IN  {NoFault}
            \cup {[kind |-> "unreadable", file |-> f] : f \in present}
            \cup {[kind |-> "unparsable", file |-> f] :
                    f \in {g \in present : IsMetadataName(g)}}

InitAssets ==
    /\ pc = "get_asset_pairs"
    /\ dir_ok \in BOOLEAN
    /\ entries \in (IF dir_ok THEN Listings(AssetEntries) ELSE {<<>>})
    /\ fault \in Faults(entries)
    /\ paths = <<>>
    /\ k = 1
    /\ asset_pairs = <<>>
    /\ result = Pending
    /\ cache_items = <<>>
    /\ MetadataIdle
    /\ WithdrawIdle

NextAssets ==
    \/ GetAssetPairsScan
    \/ GetAssetPairsLoop
    \/ GetAssetPairsReturn
    \/ IntoCacheItem

SpecAssets == InitAssets /\ [][NextAssets]_vars

\* ------------------------------------------------------------ count_files

\* count_files called on its own: Ok(files), the read_dir error, or a panic.
CountFiles ==
    /\ pc = "count_files"
    /\ LET files == count_files(dir_ok, entries)
       IN  CASE files.tag = "Panic" ->
                  /\ pc' = "panic"
                  /\ result' = Panic
                  /\ UNCHANGED paths
             [] files.tag = "Err" ->
                  /\ pc' = "done"
                  /\ result' = Err("read_dir", <<>>, NoIndex)
                  /\ UNCHANGED paths
             [] OTHER ->
                  /\ pc' = "done"
                  /\ result' = Ok
                  /\ paths' = [n \in DOMAIN files.files |-> files.files[n].name]
    /\ UNCHANGED <<dir_ok, entries, fault, k, asset_pairs, cache_items>>
    /\ UNCHANGED <<metaVars, withdrawVars>>

Name_bad == <<"2", ".", "p", "n", "g">>

\* What a listing given to count_files alone is drawn from: regular files, a
\* hidden file, a subdirectory, an entry that could not be read, one whose
\* name is not valid unicode, one whose metadata lookup fails.
ScanEntries ==
    {RegularFile(Name_0_json), RegularFile(Name_0_png),
     RegularFile(Name_hidden), Directory(Name_0_gif),
     Entry(Name_1_Png, FALSE, TRUE, TRUE, TRUE),
     Entry(Name_bad, TRUE, FALSE, TRUE, TRUE),
     Entry(Name_0_mp4, TRUE, TRUE, FALSE, TRUE)}

InitScan ==
    /\ pc = "count_files"
    /\ dir_ok \in BOOLEAN
    /\ entries \in (IF dir_ok THEN Listings(ScanEntries) ELSE {<<>>})
    /\ fault = NoFault
    /\ paths = <<>>
    /\ k = 1
    /\ asset_pairs = <<>>
    /\ result = Pending
    /\ cache_items = <<>>
    /\ MetadataIdle
    /\ WithdrawIdle

NextScan == CountFiles

SpecScan == InitScan /\ [][NextScan]_vars

\* --------------------------------------------------- get_updated_metadata

metadata_file == <<"0", ".", "j", "s", "o", "n">>

\* The Metadata document: name, image, animation_url and properties.files,
\* an ordered list of {uri, type} entries.
FileEntries ==
    {[uri |-> "old-a", type |-> "image/png"],
     [uri |-> "old-b", type |-> "video/mp4"]}

Documents ==
    [name : {"Foo"},
     image : {"old-a"},
     animation_url : {None, Some("old-b")},
     properties :
        [files : UNION {[1..n -> FileEntries] : n \in 0..MaxFileEntries}]]

\* serde_json::to_string(&metadata): the fields in declaration order.
to_string(m) ==
    << <<"name", m.name>>,
       <<"image", m.image>>,
       <<"animation_url", m.animation_url>>,
       <<"properties", << <<"files", m.properties.files>> >> >> >>

\* Reading a serialized document back: the value under a key.
Field(text, key) == text[CHOOSE n \in DOMAIN text : text[n][1] = key][2]

\* A slip: the media link reaches the image field only.
SetMediaImageOnly(m, link) == [m EXCEPT !.image = link]

\* metadata.image = media_link; metadata.properties.files[0].uri = media_link
\* (entry 0 is position 1 here; the index is in bounds).
SetMedia(m, link) ==
    [m EXCEPT !.image = link, !.properties.files[1].uri = link]

\* A slip: the animation link is written to entry 0.
SetAnimationEntryZero(m, link) ==
    [m EXCEPT !.animation_url = Some(link), !.properties.files[1].uri = link]

\* metadata.animation_url = animation_link.clone();
\* metadata.properties.files[1].uri = animation_link.unwrap()
\* (entry 1 is position 2 here; the index is in bounds).
SetAnimation(m, link) ==
    [m EXCEPT !.animation_url = Some(link), !.properties.files[2].uri = link]

\* Lines 239-242: open the file and parse it.
GetUpdatedMetadataRead ==
    /\ pc = "get_updated_metadata"
    /\ IF ~CanOpen(JoinPath(assets_dir, metadata_file))
       THEN /\ pc' = "done"
            /\ result' = Err("io", metadata_file, NoIndex)
            /\ UNCHANGED metadata
       ELSE IF ~CanParse(JoinPath(assets_dir, metadata_file))
       THEN /\ pc' = "done"
            /\ result' = Err("json", metadata_file, NoIndex)
            /\ UNCHANGED metadata
       ELSE /\ pc' = "set_media"
            /\ metadata' = document
            /\ UNCHANGED result
    /\ UNCHANGED <<document, media_link, animation_link, updated>>
    /\ UNCHANGED <<assetVars, withdrawVars>>

\* Lines 244-245: files[0] panics when the document has no file entry; the
\* image field has been assigned by then.
GetUpdatedMetadataMedia ==
    /\ pc = "set_media"
    /\ IF Len(metadata.properties.files) < 1
       THEN /\ pc' = "panic"
            /\ result' = Panic
            /\ metadata' = [metadata EXCEPT !.image = media_link]
       ELSE /\ pc' = "set_animation"
            /\ metadata' = SetMedia(metadata, media_link)
            /\ UNCHANGED result
    /\ UNCHANGED <<document, media_link, animation_link, updated>>
    /\ UNCHANGED <<assetVars, withdrawVars>>

\* Lines 247-250: files[1] panics when the document has fewer than two file
\* entries; the animation field has been assigned by then.
GetUpdatedMetadataAnimation ==
    /\ pc = "set_animation"
    /\ IF animation_link = None
       THEN /\ pc' = "serialize"
            /\ UNCHANGED <<metadata, result>>
       ELSE IF Len(metadata.properties.files) < 2
       THEN /\ pc' = "panic"
            /\ result' = Panic
            /\ metadata' = [metadata EXCEPT !.animation_url = animation_link]
       ELSE /\ pc' = "serialize"
            /\ metadata' = SetAnimation(metadata, First(animation_link))
            /\ UNCHANGED result
    /\ UNCHANGED <<document, media_link, animation_link, updated>>
    /\ UNCHANGED <<assetVars, withdrawVars>>

\* Line 252: Ok(serde_json::to_string(&metadata).unwrap())
GetUpdatedMetadataReturn ==
    /\ pc = "serialize"
    /\ pc' = "done"
    /\ result' = Ok
    /\ updated' = Some(to_string(metadata))
    /\ UNCHANGED <<document, media_link, animation_link, metadata>>
    /\ UNCHANGED <<assetVars, withdrawVars>>

InitMetadata ==
    /\ pc = "get_updated_metadata"
    /\ result = Pending
    /\ fault \in {NoFault,
                  [kind |-> "unreadable", file |-> metadata_file],
                  [kind |-> "unparsable", file |-> metadata_file]}
    /\ document \in Documents
    /\ media_link \in {"new-media"}
    /\ animation_link \in {None, Some("new-animation")}
    /\ metadata = <<>>
    /\ updated = None
    /\ AssetsIdle
    /\ WithdrawIdle

NextMetadata ==
    \/ GetUpdatedMetadataRead
    \/ GetUpdatedMetadataMedia
    \/ GetUpdatedMetadataAnimation
    \/ GetUpdatedMetadataReturn

SpecMetadata == InitMetadata /\ [][NextMetadata]_vars

\* ------------------------------------------------------- process_withdraw

PayerKey == "payer-key"

OtherKey == "other-key"

CandyMachines == {"cm-1", "cm-2", "cm-3", "cm-4"}

\* Pubkey::from_str succeeds on the base58 keys and on nothing else.
IsPubkey(str) == str \in {PayerKey, OtherKey} \cup CandyMachines

WithdrawArgsSet ==
    [candy_machine : {None, Some("cm-1"), Some("not a key")},
     list : BOOLEAN,
     authority : {None, Some(PayerKey), Some(OtherKey), Some("not a key")}]

\* What get_program_accounts_with_config may return: candy machines, each
\* once, in the order of the reply.
AccountLists ==
    UNION {{s \in [1..n -> CandyMachines] :
              \A a, b \in 1..n : a # b => s[a] # s[b]}
            : n \in 0..MaxAccounts}

\* A slip: only the --list flag is looked at.
ListFlagOnly(list_arg, payer_key, authority_key) == list_arg

\* let list = args.list || (payer != authority);
ListMode(list_arg, payer_key, authority_key) ==
    list_arg \/ payer_key # authority_key

\* let candy_machine = if list { None } else { args.candy_machine };
candy_machine == IF list THEN None ELSE args.candy_machine

\* The record pushed for a failed withdraw.
WithdrawError(key) ==
    [candy_machine |-> key, error_message |-> "sugar error"]

\* setup_withdraw and the choice of the mode. The set-up of the client may
\* fail, and so may the parse of the --authority string.
Setup ==
    /\ pc = "process_withdraw"
    /\ \E client_ok \in BOOLEAN :
         IF ~client_ok
         THEN /\ pc' = "done"
              /\ result' = Err("setup", <<>>, NoIndex)
              /\ UNCHANGED <<authority, list>>
         ELSE IF args.authority # None /\ ~IsPubkey(First(args.authority))
         THEN /\ pc' = "done"
              /\ result' = Err("pubkey", <<>>, NoIndex)
              /\ UNCHANGED <<authority, list>>
         ELSE /\ authority' = IF args.authority # None
                              THEN First(args.authority) ELSE payer
              /\ list' = ListMode(args.list, payer, authority')
              /\ pc' = IF ~list' /\ args.candy_machine # None
                       THEN "drain_one" ELSE "lookup"
              /\ UNCHANGED result
    /\ UNCHANGED <<args, payer, accounts, answer, next, not_drained,
                   error_messages, withdraws, listed>>
    /\ UNCHANGED <<assetVars, metaVars>>

\* The Some(candy_machine) arm: parse the id, then do_withdraw(...)?.
DrainOne ==
    /\ pc = "drain_one"
    /\ IF ~IsPubkey(First(candy_machine))
       THEN /\ result' = Err("pubkey", <<>>, NoIndex)
            /\ UNCHANGED withdraws
       ELSE \E sent \in BOOLEAN :
              /\ withdraws' = Append(withdraws,
                                [candy_machine |-> First(candy_machine),
                                 ok |-> sent])
              /\ result' = IF sent THEN Ok ELSE Err("withdraw", <<>>, NoIndex)
    /\ pc' = "done"
    /\ UNCHANGED <<args, payer, authority, list, accounts, answer, next,
                   not_drained, error_messages, listed>>
    /\ UNCHANGED <<assetVars, metaVars>>

\* The None arm up to the prompt: the lookup, and the listing when `list`.
Lookup ==
    /\ pc = "lookup"
    /\ \/ /\ pc' = "done"
          /\ result' = Err("rpc", <<>>, NoIndex)
          /\ UNCHANGED <<accounts, listed>>
       \/ \E found \in AccountLists :
            /\ accounts' = found
            /\ IF found = <<>>
               THEN /\ pc' = "done"
                    /\ result' = Ok
                    /\ UNCHANGED listed
               ELSE IF list
               THEN /\ pc' = "done"
                    /\ result' = Ok
                    /\ listed' = found
               ELSE /\ pc' = "confirm"
                    /\ UNCHANGED <<result, listed>>
    /\ UNCHANGED <<args, payer, authority, list, answer, next, not_drained,
                   error_messages, withdraws>>
    /\ UNCHANGED <<assetVars, metaVars>>

\* Confirm::interact()?: yes, no, or an I/O error of the terminal.
Confirm ==
    /\ pc = "confirm"
    /\ \E reply \in {"yes", "no", "error"} :
         /\ answer' = reply
         /\ CASE reply = "yes" ->
                   /\ pc' = "for_each"
                   /\ UNCHANGED result
              [] reply = "no" ->
                   /\ pc' = "done"
                   /\ result' = Err("Withdraw aborted", <<>>, NoIndex)
              [] OTHER ->
                   /\ pc' = "done"
                   /\ result' = Err("io", <<>>, NoIndex)
    /\ next' = 1
    /\ not_drained' = 0
    /\ error_messages' = <<>>
    /\ UNCHANGED <<args, payer, authority, list, accounts, withdraws, listed>>
    /\ UNCHANGED <<assetVars, metaVars>>

\* A slip: the first failed withdraw is returned with `?`.
ForEachStopsAtFailure ==
    /\ pc = "for_each"
    /\ next <= Len(accounts)
    /\ \E sent \in BOOLEAN :
         /\ withdraws' = Append(withdraws,
                           [candy_machine |-> accounts[next], ok |-> sent])
         /\ IF sent
            THEN UNCHANGED <<pc, result>>
            ELSE pc' = "done" /\ result' = Err("withdraw", <<>>, NoIndex)
    /\ next' = next + 1
    /\ UNCHANGED <<args, payer, authority, list, accounts, answer,
                   not_drained, error_messages, listed>>
    /\ UNCHANGED <<assetVars, metaVars>>

\* One call of the closure of accounts.iter().for_each: do_withdraw, and on
\* its failure the counter and the error record.
ForEach ==
    /\ pc = "for_each"
    /\ next <= Len(accounts)
    /\ \E sent \in BOOLEAN :
         /\ withdraws' = Append(withdraws,
                           [candy_machine |-> accounts[next], ok |-> sent])
         /\ IF sent
            THEN UNCHANGED <<not_drained, error_messages>>
            ELSE /\ not_drained' = not_drained + 1
                 /\ error_messages' =
                      Append(error_messages, WithdrawError(accounts[next]))
    /\ next' = next + 1
    /\ UNCHANGED <<pc, result, args, payer, authority, list, accounts, answer,
                   listed>>
    /\ UNCHANGED <<assetVars, metaVars>>

\* After the loop: the summary is printed and Ok(()) returned.
Finish ==
    /\ pc = "for_each"
    /\ next > Len(accounts)
    /\ pc' = "done"
    /\ result' = Ok
    /\ UNCHANGED withdrawVars
    /\ UNCHANGED <<assetVars, metaVars>>

InitWithdraw ==
    /\ pc = "process_withdraw"
    /\ result = Pending
    /\ fault = NoFault
    /\ args \in WithdrawArgsSet
    /\ payer = PayerKey
    /\ authority = ""
    /\ list = FALSE
    /\ accounts = <<>>
    /\ answer = ""
    /\ next = 1
    /\ not_drained = 0
    /\ error_messages = <<>>
    /\ withdraws = <<>>
    /\ listed = <<>>
    /\ AssetsIdle
    /\ MetadataIdle

NextWithdraw ==
    \/ Setup
    \/ DrainOne
    \/ Lookup
    \/ Confirm
    \/ ForEach
    \/ Finish

SpecWithdraw == InitWithdraw /\ [][NextWithdraw]_vars

\* ================================================================ claims
\* Vocabulary of the claims about get_asset_pairs, over the scanned names.

\* The stem of a metadata file name, and the index it stands for.
StemOf(name) == SplitFirst(name)

IndexOf(name) == ParseUsize(StemOf(name))

\* The scanned names that are "<stem>.<ext>" for one of the extensions,
\* letter case aside, in scan order.
Named(stem, exts) ==
    LET Is(p) == \E e \in exts : to_lowercase(p) = stem \o <<".">> \o e
    IN  SelectSeq(paths, Is)

\* get_asset_pairs has run to its end on a directory that could be scanned.
Finished == pc = "done" /\ result.kind # "read_dir"

\* The file the fault sits on is none of these names.
Sound(names) == fault.kind = "none" \/ fault.file \notin names

\* A metadata file that the loop gets through: numeric stem, a media file,
\* and the files read for it (the metadata file, the first media match, the
\* first animation match) can be read and parsed.
Resolves(name) ==
    /\ ParsesAsUsize(StemOf(name))
    /\ Named(StemOf(name), ImgExts) # <<>>
    /\ Sound({name, Named(StemOf(name), ImgExts)[1]})
    /\ Named(StemOf(name), AnimationExts) # <<>>
          => Sound({Named(StemOf(name), AnimationExts)[1]})

\* Every metadata file iterated before position n resolves.
EarlierResolve(n) == \A m \in 1..(n - 1) : Resolves(metadata_filenames[m])

\* Each index has one metadata file, one media file, at most one animation
\* file (the media and animation files being those named by the metadata
\* file's stem), and everything can be read and parsed.
ValidDirectory ==
    /\ fault = NoFault
    /\ \A n \in DOMAIN metadata_filenames :
         LET name == metadata_filenames[n]
         IN  /\ ParsesAsUsize(StemOf(name))
             /\ \A m \in DOMAIN metadata_filenames :
                  m # n => ~ParsesAsUsize(StemOf(metadata_filenames[m]))
                             \/ IndexOf(metadata_filenames[m]) # IndexOf(name)
             /\ Len(Named(StemOf(name), ImgExts)) = 1
             /\ Len(Named(StemOf(name), AnimationExts)) <= 1

\* C1: on a directory where every index has exactly one metadata file, exactly
\* one media file and at most one animation file, all readable and parseable,
\* get_asset_pairs returns Ok with exactly the indices of the metadata files
\* as keys.
C1_ValidDirectoryYieldsAllIndices ==
    Finished /\ ValidDirectory
        => /\ result.tag = "Ok"
           /\ DOMAIN asset_pairs =
                {IndexOf(metadata_filenames[n]) : n \in DOMAIN metadata_filenames}

\* C1: a valid directory with two indices has been processed.
C1_Witness ==
    /\ Finished /\ ValidDirectory
    /\ Len(metadata_filenames) = 2
    /\ Cardinality(DOMAIN asset_pairs) = 2

\* C2 as stated: whenever some scanned metadata file has a stem that is not a
\* number, the call returns the index error naming that file, and no mapping.
C2_AnyBadStemIsTheErrorNamed ==
    Finished
        => \A n \in DOMAIN metadata_filenames :
             ~ParsesAsUsize(StemOf(metadata_filenames[n]))
                => /\ result = Err("index", metadata_filenames[n], NoIndex)
                   /\ Returned = None

\* C2 amended: whenever some scanned metadata file has a stem that is not a
\* number, the call returns an error and no mapping, whatever the order; the
\* error is the index error naming that file when it is the first metadata
\* file in iteration order that fails, that is, when every metadata file
\* iterated before it resolves.
C2_BadStemFailsTheCall ==
    Finished
        => \A n \in DOMAIN metadata_filenames :
             ~ParsesAsUsize(StemOf(metadata_filenames[n]))
                => /\ result.tag = "Err"
                   /\ Returned = None
                   /\ EarlierResolve(n)
                        => result = Err("index", metadata_filenames[n], NoIndex)

\* C2: a file with a non-numeric stem was reached after a complete index and
\* the call ended with the error naming it.
C2_Witness ==
    /\ Finished
    /\ \E n \in DOMAIN metadata_filenames :
         /\ n > 1
         /\ ~ParsesAsUsize(StemOf(metadata_filenames[n]))
         /\ result = Err("index", metadata_filenames[n], NoIndex)
         /\ asset_pairs # <<>>

\* A metadata file with a numeric stem and no media file named by that stem.
LacksMedia(name) ==
    ParsesAsUsize(StemOf(name)) /\ Named(StemOf(name), ImgExts) = <<>>

\* C3 as stated: whenever a metadata file with a valid index has no media
\* file, the call returns the missing-media error referencing that index, and
\* no mapping.
C3_AnyMissingMediaIsTheErrorNamed ==
    Finished
        => \A n \in DOMAIN metadata_filenames :
             LacksMedia(metadata_filenames[n])
                => /\ result = Err("media", <<>>, IndexOf(metadata_filenames[n]))
                   /\ Returned = None

\* C3 amended: whenever a metadata file with a stem of decimal digits has no
\* media file named "<stem>.jpg", "<stem>.gif" or "<stem>.png" (letter case
\* aside), the call returns an error and no mapping; the error is the
\* missing-media error referencing its index when it is the first metadata
\* file in iteration order that fails, that is, when every metadata file
\* iterated before it resolves.
C3_MissingMediaFailsTheCall ==
    Finished
        => \A n \in DOMAIN metadata_filenames :
             LacksMedia(metadata_filenames[n])
                => /\ result.tag = "Err"
                   /\ Returned = None
                   /\ EarlierResolve(n)
                        => result = Err("media", <<>>,
                                        IndexOf(metadata_filenames[n]))

\* C3: an index without media was reached after a complete index and the
\* call ended with the missing-media error for it.
C3_Witness ==
    /\ Finished
    /\ \E n \in DOMAIN metadata_filenames :
         /\ n > 1
         /\ LacksMedia(metadata_filenames[n])
         /\ result = Err("media", <<>>, IndexOf(metadata_filenames[n]))
         /\ asset_pairs # <<>>

\* C5 as stated: a cache record made from an AssetPair copies name and hashes
\* and starts with every link field empty and the uploaded flag false.
C5_CacheItemStartsWithEmptyLinks ==
    \A key \in DOMAIN cache_items :
        LET item == cache_items[key]
            pair == asset_pairs[key]
        IN  /\ item.name = pair.name
            /\ item.media_hash = pair.media_hash
            /\ item.metadata_hash = pair.metadata_hash
            /\ item.animation_hash = pair.animation_hash
            /\ item.media_link = <<>>
            /\ item.metadata_link = <<>>
            /\ item.animation_link = None
            /\ item.on_chain = FALSE

\* C7: in every AssetPair of the map, animation path and hash are present
\* together; they are absent exactly when no scanned name matches the
\* animation pattern of the pair's metadata stem, and otherwise are the path
\* and the digest of the first match in scan order.
C7_AnimationPathAndHashAgree ==
    \A key \in DOMAIN asset_pairs :
        LET pair == asset_pairs[key]
            stem == StemOf(FileNameOf(pair.metadata))
            matches == Named(stem, AnimationExts)
        IN  /\ ParseUsize(stem) = key
            /\ (pair.animation = None) <=> (pair.animation_hash = None)
            /\ (pair.animation = None) <=> (matches = <<>>)
            /\ matches # <<>>
                 => /\ pair.animation = Some(JoinPath(assets_dir, matches[1]))
                    /\ pair.animation_hash =
                         Some(Sha256Hex(Bytes(JoinPath(assets_dir, matches[1]))))

\* C7: a map was returned holding a pair whose animation was picked among
\* two matching files.
C7_Witness ==
    /\ pc = "done" /\ result.tag = "Ok"
    /\ \E key \in DOMAIN asset_pairs :
         /\ asset_pairs[key].animation # None
         /\ Len(Named(StemOf(FileNameOf(asset_pairs[key].metadata)),
                      AnimationExts)) = 2

\* An entry of the listing that cannot be introspected: it could not be read,
\* or it was read and its name is not valid unicode, or it was read, is not
\* hidden, and its metadata lookup fails.
CannotIntrospect(e) ==
    \/ ~e.ok
    \/ ~e.unicode
    \/ ~starts_with(e.name, ".") /\ ~e.meta_ok

\* C6 as stated: count_files never returns Ok for a listing that holds an
\* entry it cannot introspect.
C6_ScanNeverDropsSilently ==
    pc = "done" /\ result.tag = "Ok"
        => \A n \in DOMAIN entries : ~CannotIntrospect(entries[n])

\* The document has the file entries the call writes to.
HasNeededEntries ==
    /\ Len(document.properties.files) >= 1
    /\ animation_link # None => Len(document.properties.files) >= 2

\* get_updated_metadata has come to its end, one way or another.
MetadataEnded == pc \in {"done", "panic"} /\ document # <<>>

\* C4: for a readable, parseable document with the needed file entries,
\* get_updated_metadata returns a document whose image and entry-0 uri are
\* the media link; whose animation field and entry-1 uri are the animation
\* link when one is given and are untouched otherwise; and whose name, entry
\* count, entry types and remaining entries are those of the input.
C4_LinksRewrittenRestKept ==
    MetadataEnded /\ HasNeededEntries /\ fault = NoFault
        => /\ result.tag = "Ok"
           /\ updated # None
           /\ LET out == First(updated)
                  old == document.properties.files
                  new == Field(Field(out, "properties"), "files")
              IN  /\ Field(out, "image") = media_link
                  /\ new[1].uri = media_link
                  /\ Field(out, "name") = document.name
                  /\ Len(new) = Len(old)
                  /\ \A n \in DOMAIN old : new[n].type = old[n].type
                  /\ \A n \in DOMAIN old : n > 2 => new[n] = old[n]
                  /\ animation_link # None
                       => /\ Field(out, "animation_url") = animation_link
                          /\ new[2].uri = First(animation_link)
                  /\ animation_link = None
                       => /\ Field(out, "animation_url") = document.animation_url
                          /\ Len(old) >= 2 => new[2] = old[2]

\* C4: a document with three entries was rewritten with both links.
C4_Witness ==
    /\ pc = "done" /\ result.tag = "Ok" /\ updated # None
    /\ animation_link # None
    /\ Len(document.properties.files) = 3
    /\ document.properties.files[1].uri # media_link

\* C8 as stated: when the animation link is about to be written and the
\* document has no file entry 1, the call ends with an error returned to the
\* caller, and with no document.
C8_MissingEntryIsAnError ==
    [][pc = "set_animation" /\ animation_link # None
                            /\ Len(metadata.properties.files) < 2
          => result'.tag = "Err" /\ updated' = None]_vars

\* The run is one in which nothing may be drained: --list was given, or an
\* authority was given that is not the payer.
ListingRun ==
    \/ args.list
    \/ args.authority # None /\ First(args.authority) # PayerKey

\* C9: in a run with the list flag set, or with an authority that is not the
\* payer, do_withdraw is never called, whatever candy machine id was passed;
\* a run that ends well has listed the accounts found.
C9_ListingNeverWithdraws ==
    pc # "process_withdraw" /\ ListingRun
        => /\ withdraws = <<>>
           /\ pc = "done" /\ result.tag = "Ok" => listed = accounts

\* C9: a run given a candy machine id and a foreign authority, without the
\* list flag, listed the accounts it found.
C9_Witness ==
    /\ pc = "done" /\ result.tag = "Ok"
    /\ ~args.list /\ args.authority = Some(OtherKey)
    /\ args.candy_machine # None
    /\ Len(listed) >= 2

\* The candy machines of a sequence of records.
KeysOf(records) == [n \in DOMAIN records |-> records[n].candy_machine]

FailedWithdraws ==
    LET Failed(w) == ~w.ok
    IN  SelectSeq(withdraws, Failed)

\* C10: in drain-all mode, once the user has confirmed, the withdraws made
\* are those of the accounts found, once each and in order, up to the
\* position reached and to the end when the run is over; the error list holds
\* one entry per failed withdraw, in order, and the counter is its length.
\* When the user declines, nothing is withdrawn and the run returns
\* 'Withdraw aborted'.
C10_DrainAllTriesEveryAccount ==
    /\ answer = "yes"
         => /\ KeysOf(withdraws) = SubSeq(accounts, 1, next - 1)
            /\ pc = "done" => next = Len(accounts) + 1
            /\ KeysOf(error_messages) = KeysOf(FailedWithdraws)
            /\ not_drained = Len(error_messages)
    /\ answer = "no"
         => /\ withdraws = <<>>
            /\ pc = "done"
            /\ result = Err("Withdraw aborted", <<>>, NoIndex)

\* C10: a drain of three accounts is over in which the first withdraw failed
\* and the last succeeded.
C10_Witness ==
    /\ pc = "done" /\ answer = "yes"
    /\ Len(accounts) = 3
    /\ ~withdraws[1].ok /\ withdraws[3].ok
    /\ not_drained = 1

====
